---- MODULE Spec2Model ----
\* Model of libmbcommon/src/file_util.cpp: file_read_fully, file_write_fully,
\* file_read_discard, file_search and file_move on top of an abstract File handle.
EXTENDS Integers, Sequences, FiniteSets, TLC

\* ---------------------------------------------------------------- bounds
\* Longest file content and largest capacity of the handle.
MaxLen == 4
\* Largest size argument handed to the transfer functions.
MaxSize == 5
\* Largest sizeof(buf) of the scratch buffers (10240 in the build).
MaxChunk == 2
\* Longest run of consecutive RETRY results of a handle.
MaxRetry == 1

\* ---------------------------------------------------------------- state
VARIABLES
    content,      \* File: the bytes of the file, content[i] is the byte at offset i-1
    pos,          \* File: the read/write position (0-based offset)
    cap,          \* File: the largest length the file can grow to
    retryRun,     \* File: how many RETRY results the handle returned in a row
    hcall,        \* the last single-shot File call: [op, at, len, st, n]
    ncalls,       \* how many File::read, File::write and File::seek calls were made
    hfail,        \* history: a File call failed, or malloc did
    wlog,         \* history: the bytes File::write calls wrote: [total, offsets]
    buf,          \* the buffer the running function reads into / writes from
    sizeof_buf,   \* sizeof(buf) of the scratch buffer of file_read_discard/file_move
    xpc,          \* file_*_fully / file_read_discard: "idle", "run" or "ret"
    xop,          \* which of the three runs: "read", "write", "discard"
    xbase,        \* offset of its buf argument inside the caller's buffer
    xsize,        \* its size argument
    xcount,       \* *bytes_read / *bytes_written / *bytes_discarded
    xret,         \* its return value
    xpos0,        \* history: the file position when it was called
    content0,     \* history: the file content when the top-level call started
    seekable,     \* File: FALSE when File::seek reports UNSUPPORTED
    faults,       \* File: the statuses below OK its calls may return
    retryMax,     \* File: the longest run of RETRY results it returns
    shorts,       \* File: TRUE when a call may transfer less than it could
    pc,           \* file_search / file_move: the place the function is at
    ret,          \* file_search / file_move: the return value
    err,          \* the kind of the last File::set_error call, "none" without one
    src,          \* file_move: source offset
    dest,         \* file_move: destination offset
    size,         \* file_move: size of the data to move (the backward loop changes it)
    size0,        \* history: file_move's size argument as passed
    size_moved,   \* file_move: *size_moved
    moved_set,    \* history: file_move has assigned *size_moved
    to_read,      \* file_move: to_read of the current iteration
    n_read,       \* file_move: n_read
    n_written,    \* file_move: n_written
    short_read,   \* history: a chunk that was written had read less than its to_read
    start,        \* file_search: start offset, negative for the beginning of the file
    end,          \* file_search: end offset, negative for the end of the file
    bsize,        \* file_search: buffer size, 0 to choose one
    pattern,      \* file_search: the pattern; pattern_size is its length
    max_matches,  \* file_search: matches still allowed, negative for all
    buf_size,     \* file_search: size of the allocated buffer
    ptr,          \* file_search: ptr - buf, where the next fill starts
    ptr_remain,   \* file_search: bytes of the buffer from ptr on
    match,        \* file_search: match - buf, the search cursor; -1 for a null match
    match_remain, \* file_search: bytes the next search covers
    offset,       \* file_search: file offset of the buffer's first byte
    n,            \* file_search: valid bytes in the buffer
    matches,      \* history: the offsets handed to result_cb, in order
    cbret,        \* history: what the last call of result_cb returned, "none" before it
    max0          \* history: max_matches as passed

fvars == <<content, pos, cap, retryRun, hcall, ncalls, hfail, wlog>>
xvars == <<xpc, xop, xbase, xsize, xcount, xret, xpos0>>
tvars == <<pc, ret, err, seekable, faults, retryMax, shorts, sizeof_buf, content0>>
mvars == <<src, dest, size, size0, size_moved, moved_set, to_read, n_read, n_written,
           short_read>>
svars == <<start, end, bsize, pattern, max_matches, buf_size, ptr, ptr_remain,
           match, match_remain, offset, n, matches, cbret, max0>>
vars == <<fvars, xvars, tvars, mvars, svars, buf>>

\* ---------------------------------------------------------------- helpers
Min(a, b) == IF a < b THEN a ELSE b
Max(a, b) == IF a < b THEN b ELSE a

\* FileStatus: the enumeration's order, OK above every other value.
StatusRank ==
    [OK |-> 0, RETRY |-> -1, UNSUPPORTED |-> -2, WARN |-> -3, FAILED |-> -4, FATAL |-> -5]

\* ret < FileStatus::OK
LtOK(st) == StatusRank[st] < StatusRank["OK"]

\* The statuses below OK a handle may report for a read or a write.
HandleErrors == {"UNSUPPORTED", "WARN", "FAILED", "FATAL"}

\* A byte of a buffer that was never written (char buf[...], malloc).
Junk == 0

\* A buffer of k unwritten bytes.
NewBuf(k) == [i \in 1..k |-> Junk]

\* The bytes 1..k: a file content in which every byte is different.
Iota(k) == [i \in 1..k |-> i]

\* The data a caller hands to file_write_fully: k bytes no file content holds.
WriteData(k) == [i \in 1..k |-> MaxLen + i]

\* ---------------------------------------------------------------- File handle
\* Bytes between the position and the end of the file.
Avail == IF pos < Len(content) THEN Len(content) - pos ELSE 0

\* Bytes between the position and the capacity.
Room == IF pos < cap THEN cap - pos ELSE 0

\* The byte counts an OK call may report when it could transfer up to most
\* bytes: 0 only when most is 0 (end of file, end of capacity).
Counts(len, most) ==
    IF most = 0 THEN {0}
    ELSE IF shorts THEN 1..Min(len, most)
    ELSE {Min(len, most)}

\* File::read(buf, len, &n): the results one call may produce. RETRY and the
\* failures transfer nothing.
FileRead(len) ==
    {[st |-> "RETRY", n |-> 0] : x \in IF retryRun < retryMax THEN {1} ELSE {}}
    \cup {[st |-> s, n |-> 0] : s \in faults}
    \cup {[st |-> "OK", n |-> k] : k \in Counts(len, Avail)}

\* File::write(buf, len, &n): as FileRead.
FileWrite(len) ==
    {[st |-> "RETRY", n |-> 0] : x \in IF retryRun < retryMax THEN {1} ELSE {}}
    \cup {[st |-> s, n |-> 0] : s \in faults}
    \cup {[st |-> "OK", n |-> k] : k \in Counts(len, Room)}

\* The file after k bytes data[from+1 .. from+k] are written at the position;
\* a gap between the end of the file and the position holds unspecified bytes.
Written(data, from, k) ==
    LET newlen == IF k = 0 THEN Len(content) ELSE Max(Len(content), pos + k)
    IN [i \in 1..newlen |->
          IF i > pos /\ i <= pos + k THEN data[from + (i - pos)]
          ELSE IF i <= Len(content) THEN content[i]
          ELSE Junk]

\* The buffer after k bytes of the file at the position are stored at b[at+1..].
Stored(b, at, k) ==
    [i \in 1..Len(b) |-> IF i > at /\ i <= at + k THEN content[pos + (i - at)] ELSE b[i]]

\* The record of a single-shot call and the handle's retry counter after it.
Called(op, at, len, r) ==
    /\ hcall' = [op |-> op, at |-> at, len |-> len, st |-> r.st, n |-> r.n]
    /\ ncalls' = ncalls + 1
    /\ retryRun' = IF r.st = "RETRY" THEN retryRun + 1 ELSE 0
    /\ hfail' = (hfail \/ r.st \in HandleErrors)
    /\ wlog' = IF op = "write"
               THEN [total |-> wlog.total + r.n,
                     offsets |-> wlog.offsets \cup (pos .. (pos + r.n - 1))]
               ELSE wlog

\* ---------------------------------------------------------------- transfers
\* The loop test that follows an iteration which leaves cnt bytes transferred.
LoopExit(cnt, sz) ==
    IF cnt < sz THEN [pc |-> "run", ret |-> "OK", count |-> cnt]
    ELSE [pc |-> "ret", ret |-> "OK", count |-> cnt]

\* A faulty variant of ReadFullyBody: *bytes_read = n instead of += n.
ReadFullyBody_Assign(st, nb, cnt, sz) ==
    IF st = "RETRY" THEN [pc |-> "run", ret |-> "OK", count |-> cnt]
    ELSE IF LtOK(st) THEN [pc |-> "ret", ret |-> st, count |-> cnt]
    ELSE IF nb = 0 THEN [pc |-> "ret", ret |-> "OK", count |-> cnt]
    ELSE LoopExit(nb, sz)

\* file_read_fully, lines 92-103: what one iteration does with File::read's
\* result: where the function is next, its return value, *bytes_read.
ReadFullyBody(st, nb, cnt, sz) ==
    IF st = "RETRY" THEN [pc |-> "run", ret |-> "OK", count |-> cnt]
    ELSE IF LtOK(st) THEN [pc |-> "ret", ret |-> st, count |-> cnt]
    ELSE IF nb = 0 THEN [pc |-> "ret", ret |-> "OK", count |-> cnt]
    ELSE LoopExit(cnt + nb, sz)

\* A faulty variant of WriteFullyBody: the count is zeroed on a failure.
WriteFullyBody_ResetOnError(st, nb, cnt, sz) ==
    IF st = "RETRY" THEN [pc |-> "run", ret |-> "OK", count |-> cnt]
    ELSE IF LtOK(st) THEN [pc |-> "ret", ret |-> st, count |-> 0]
    ELSE IF nb = 0 THEN [pc |-> "ret", ret |-> "OK", count |-> cnt]
    ELSE LoopExit(cnt + nb, sz)

\* file_write_fully, lines 141-152.
WriteFullyBody(st, nb, cnt, sz) ==
    IF st = "RETRY" THEN [pc |-> "run", ret |-> "OK", count |-> cnt]
    ELSE IF LtOK(st) THEN [pc |-> "ret", ret |-> st, count |-> cnt]
    ELSE IF nb = 0 THEN [pc |-> "ret", ret |-> "OK", count |-> cnt]
    ELSE LoopExit(cnt + nb, sz)

\* A faulty variant of DiscardBody: no test for RETRY before the ordering test.
DiscardBody_OrderFirst(st, nb, cnt, sz) ==
    IF LtOK(st) THEN [pc |-> "ret", ret |-> st, count |-> cnt]
    ELSE IF nb = 0 THEN [pc |-> "ret", ret |-> "OK", count |-> cnt]
    ELSE LoopExit(cnt + nb, sz)

\* file_read_discard, lines 189-200.
DiscardBody(st, nb, cnt, sz) ==
    IF st = "RETRY" THEN [pc |-> "run", ret |-> "OK", count |-> cnt]
    ELSE IF LtOK(st) THEN [pc |-> "ret", ret |-> st, count |-> cnt]
    ELSE IF nb = 0 THEN [pc |-> "ret", ret |-> "OK", count |-> cnt]
    ELSE LoopExit(cnt + nb, sz)

\* file_read_fully, line 91: the length asked of File::read.
ReadFullyRequest(sz, cnt) == sz - cnt

\* file_write_fully, line 140: the length asked of File::write.
WriteFullyRequest(sz, cnt) == sz - cnt

\* file_read_discard, line 188: the length asked of File::read.
DiscardRequest(sz, cnt) == Min(sz, sizeof_buf)

\* The callee's state when it is entered with these arguments: the counter is
\* zeroed and the loop test is evaluated once (lines 87-89, 136-138, 185-187).
Enter(op, base, sz) ==
    /\ xop' = op
    /\ xbase' = base
    /\ xsize' = sz
    /\ xcount' = 0
    /\ xpos0' = pos'
    /\ xret' = "OK"
    /\ xpc' = LoopExit(0, sz).pc

\* One iteration of file_read_fully's loop: a File::read into buf + *bytes_read.
file_read_fully ==
    /\ xpc = "run" /\ xop = "read"
    /\ LET len == ReadFullyRequest(xsize, xcount) IN
       \E r \in FileRead(len) :
          LET nx == ReadFullyBody(r.st, r.n, xcount, xsize) IN
          /\ Called("read", xbase + xcount, len, r)
          /\ buf' = Stored(buf, xbase + xcount, r.n)
          /\ pos' = pos + r.n
          /\ xpc' = nx.pc /\ xret' = nx.ret /\ xcount' = nx.count
    /\ UNCHANGED <<content, cap, xop, xbase, xsize, xpos0, tvars, mvars, svars>>

\* One iteration of file_write_fully's loop: a File::write from buf + *bytes_written.
file_write_fully ==
    /\ xpc = "run" /\ xop = "write"
    /\ LET len == WriteFullyRequest(xsize, xcount) IN
       \E r \in FileWrite(len) :
          LET nx == WriteFullyBody(r.st, r.n, xcount, xsize) IN
          /\ Called("write", xbase + xcount, len, r)
          /\ content' = Written(buf, xbase + xcount, r.n)
          /\ pos' = pos + r.n
          /\ xpc' = nx.pc /\ xret' = nx.ret /\ xcount' = nx.count
    /\ UNCHANGED <<cap, buf, xop, xbase, xsize, xpos0, tvars, mvars, svars>>

\* One iteration of file_read_discard's loop: a File::read into its own scratch
\* buffer, whose content is dropped.
file_read_discard ==
    /\ xpc = "run" /\ xop = "discard"
    /\ LET len == DiscardRequest(xsize, xcount) IN
       \E r \in FileRead(len) :
          LET nx == DiscardBody(r.st, r.n, xcount, xsize) IN
          /\ Called("read", 0, len, r)
          /\ pos' = pos + r.n
          /\ xpc' = nx.pc /\ xret' = nx.ret /\ xcount' = nx.count
    /\ UNCHANGED <<content, cap, buf, xop, xbase, xsize, xpos0, tvars, mvars, svars>>

NoCall == [op |-> "none", at |-> 0, len |-> 0, st |-> "OK", n |-> 0]

\* No File::write call has written a byte.
NoWrites == [total |-> 0, offsets |-> {}]

\* The variables of file_move while another function runs.
MoveIdle ==
    /\ src = 0 /\ dest = 0 /\ size = 0 /\ size0 = 0
    /\ size_moved = 0 /\ moved_set = FALSE
    /\ to_read = 0 /\ n_read = 0 /\ n_written = 0
    /\ short_read = FALSE

\* The variables of file_search while another function runs.
SearchIdle ==
    /\ start = 0 /\ end = 0 /\ bsize = 0 /\ pattern = <<>>
    /\ max_matches = 0 /\ max0 = 0 /\ buf_size = 0
    /\ ptr = 0 /\ ptr_remain = 0 /\ match = 0 /\ match_remain = 0
    /\ offset = 0 /\ n = 0 /\ matches = <<>> /\ cbret = "none"

\* A caller invokes one of the three functions on a handle at some position.
InitXfer ==
    /\ MoveIdle
    /\ SearchIdle
    /\ pc = "none" /\ ret = "OK" /\ err = "none" /\ seekable = TRUE
    /\ faults = HandleErrors /\ retryMax = MaxRetry /\ shorts = TRUE
    /\ \E l \in 0..MaxLen : content = Iota(l)
    /\ cap \in Len(content)..MaxLen
    /\ pos \in 0..Len(content)
    /\ retryRun = 0
    /\ hcall = NoCall
    /\ ncalls = 0
    /\ hfail = FALSE
    /\ wlog = NoWrites
    /\ sizeof_buf \in 1..MaxChunk
    /\ xop \in {"read", "write", "discard"}
    /\ xsize \in 0..MaxSize
    /\ buf = IF xop = "write" THEN WriteData(xsize) ELSE NewBuf(xsize)
    /\ xbase = 0
    /\ xcount = 0
    /\ xpos0 = pos
    /\ xret = "OK"
    /\ xpc = LoopExit(0, xsize).pc
    /\ content0 = content

NextXfer ==
    \/ file_read_fully
    \/ file_write_fully
    \/ file_read_discard

SpecXfer == InitXfer /\ [][NextXfer]_vars

\* ---------------------------------------------------------------- file_move
\* UINT64_MAX, the largest offset, scaled to the model's offsets: above every
\* offset of a byte of a file of the model.
UINT64_MAX == 15

\* File::seek(offset, SEEK_SET, nullptr): the statuses one call may produce.
FileSeek ==
    (IF seekable THEN {"OK"} ELSE {"UNSUPPORTED"}) \cup (faults \ {"UNSUPPORTED"})

\* The handle after File::seek(offset, SEEK_SET) returned st. A handle that
\* cannot seek has not failed by saying so.
Seek(off, st) ==
    /\ pos' = IF st = "OK" THEN off ELSE pos
    /\ hcall' = [op |-> "seek", at |-> off, len |-> 0, st |-> st, n |-> 0]
    /\ ncalls' = ncalls + 1
    /\ retryRun' = 0
    /\ hfail' = (hfail \/ st \in faults \ {"UNSUPPORTED"})
    /\ wlog' = wlog

\* The function returns st; the callee's frame is gone.
Return(st) ==
    /\ pc' = "done"
    /\ ret' = st
    /\ xpc' = "idle"
    /\ UNCHANGED <<xop, xbase, xsize, xcount, xret, xpos0>>

\* A faulty variant of CopyForwards: the copy always runs forwards.
CopyForwards_Always(s, d) == TRUE

\* A faulty variant of CopyForwards: the test is the wrong way round.
CopyForwards_Reversed(s, d) == d > s

\* file_move, line 472: the direction of the copy.
CopyForwards(s, d) == d < s

\* file_move, lines 475-476 and 513-514: the size of the next chunk.
ToRead(sz, moved) == Min(sizeof_buf, sz - moved)

\* file_move, line 479: the source offset of a forward chunk.
FwdSrcOffset(s, moved) == s + moved

\* file_move, line 493: the destination offset of a forward chunk.
FwdDestOffset(d, moved) == d + moved

\* file_move, line 517: the source offset of a backward chunk.
BwdSrcOffset(s, sz, moved, toread) == s + sz - moved - toread

\* file_move, line 532: the destination offset of a backward chunk.
BwdDestOffset(d, sz, moved, nread) == d + sz - moved - nread

\* A faulty variant of Degenerate: nothing to do only when both tests hold.
Degenerate_Both(s, d, sz) == s = d /\ sz = 0

\* file_move, line 459: there is nothing to do.
Degenerate(s, d, sz) == s = d \/ sz = 0

\* file_move, lines 458-473: the degenerate case, the overflow check, the
\* direction, the first test of the loop.
file_move_entry ==
    /\ pc = "move"
    /\ IF Degenerate(src, dest, size)
       THEN /\ size_moved' = size /\ moved_set' = TRUE
            /\ Return("OK")
            /\ UNCHANGED err
       ELSE IF src > UINT64_MAX - size \/ dest > UINT64_MAX - size
       THEN /\ err' = "INVALID_ARGUMENT"
            /\ Return("FAILED")
            /\ UNCHANGED <<size_moved, moved_set>>
       ELSE /\ size_moved' = 0 /\ moved_set' = TRUE
            /\ UNCHANGED err
            /\ IF 0 < size
               THEN /\ pc' = IF CopyForwards(src, dest) THEN "fwd" ELSE "bwd"
                    /\ UNCHANGED <<ret, xvars>>
               ELSE Return("OK")
    /\ UNCHANGED <<fvars, buf, seekable, faults, retryMax, shorts, sizeof_buf, content0,
                   src, dest, size, size0, to_read, n_read, n_written, short_read,
                   svars>>

\* Lines 474-485 (forward) and 512-524 (backward): the chunk size, the seek to the
\* source offset, the call of file_read_fully.
file_move_seek_src ==
    /\ pc \in {"fwd", "bwd"}
    /\ to_read' = ToRead(size, size_moved)
    /\ \E st \in FileSeek :
          /\ Seek(IF pc = "fwd" THEN FwdSrcOffset(src, size_moved)
                  ELSE BwdSrcOffset(src, size, size_moved, to_read'), st)
          /\ IF st # "OK"
             THEN Return(st)
             ELSE /\ Enter("read", 0, to_read')
                  /\ pc' = IF pc = "fwd" THEN "fwd_read" ELSE "bwd_read"
                  /\ UNCHANGED ret
    /\ UNCHANGED <<content, cap, buf, err, seekable, faults, retryMax, shorts, sizeof_buf, content0,
                   src, dest, size, size0, size_moved, moved_set, n_read, n_written,
                   short_read, svars>>

\* Lines 485-499 (forward) and 524-539 (backward): file_read_fully's result, the
\* seek to the destination offset, the call of file_write_fully.
file_move_seek_dest ==
    /\ pc \in {"fwd_read", "bwd_read"} /\ xpc = "ret"
    /\ n_read' = xcount
    /\ IF xret # "OK"
       THEN Return(xret) /\ UNCHANGED fvars
       ELSE IF xcount = 0
       THEN Return("OK") /\ UNCHANGED fvars
       ELSE \E st \in FileSeek :
          /\ Seek(IF pc = "fwd_read" THEN FwdDestOffset(dest, size_moved)
                  ELSE BwdDestOffset(dest, size, size_moved, xcount), st)
          /\ UNCHANGED <<content, cap>>
          /\ IF st # "OK"
             THEN Return(st)
             ELSE /\ Enter("write", 0, xcount)
                  /\ pc' = IF pc = "fwd_read" THEN "fwd_write" ELSE "bwd_write"
                  /\ UNCHANGED ret
    /\ UNCHANGED <<buf, err, seekable, faults, retryMax, shorts, sizeof_buf, content0,
                   src, dest, size, size0, size_moved, moved_set, to_read, n_written,
                   short_read, svars>>

\* Lines 499-509: file_write_fully's result in the forward loop, the break on a
\* short write, the loop test.
file_move_fwd_written ==
    /\ pc = "fwd_write" /\ xpc = "ret"
    /\ n_written' = xcount
    /\ short_read' = (short_read \/ n_read < to_read)
    /\ IF xret # "OK"
       THEN Return(xret) /\ UNCHANGED size_moved
       ELSE /\ size_moved' = size_moved + xcount
            /\ IF xcount < n_read \/ ~(size_moved' < size)
               THEN Return("OK")
               ELSE pc' = "fwd" /\ xpc' = "idle"
                    /\ UNCHANGED <<ret, xop, xbase, xsize, xcount, xret, xpos0>>
    /\ UNCHANGED <<fvars, buf, err, seekable, faults, retryMax, shorts, sizeof_buf, content0,
                   src, dest, size, size0, moved_set, to_read, n_read, svars>>

\* Lines 539-550: file_write_fully's result in the backward loop, the size cut by
\* the bytes that were not written, the loop test.
file_move_bwd_written ==
    /\ pc = "bwd_write" /\ xpc = "ret"
    /\ n_written' = xcount
    /\ short_read' = (short_read \/ n_read < to_read)
    /\ IF xret # "OK"
       THEN Return(xret) /\ UNCHANGED <<size_moved, size>>
       ELSE /\ size_moved' = size_moved + xcount
            /\ size' = IF xcount < n_read THEN size - (n_read - xcount) ELSE size
            /\ IF ~(size_moved' < size')
               THEN Return("OK")
               ELSE pc' = "bwd" /\ xpc' = "idle"
                    /\ UNCHANGED <<ret, xop, xbase, xsize, xcount, xret, xpos0>>
    /\ UNCHANGED <<fvars, buf, err, seekable, faults, retryMax, shorts, sizeof_buf, content0,
                   src, dest, size0, moved_set, to_read, n_read, svars>>

\* The offsets and sizes a caller passes: inside and past the file, and the
\* largest offset.
MoveOffsets == 0..MaxLen \cup {UINT64_MAX}

\* A caller invokes file_move on a handle.
InitMove ==
    /\ \E l \in 1..MaxLen : content = Iota(l)
    /\ cap \in Len(content)..MaxLen
    /\ pos \in {0, Len(content)}
    /\ retryRun = 0 /\ hcall = NoCall /\ ncalls = 0 /\ hfail = FALSE
    /\ wlog = NoWrites
    /\ seekable \in BOOLEAN
    /\ faults = {"WARN", "FAILED"} /\ retryMax = MaxRetry /\ shorts = TRUE
    /\ sizeof_buf \in 1..MaxChunk
    /\ buf = NewBuf(sizeof_buf)
    /\ xpc = "idle" /\ xop = "read" /\ xbase = 0 /\ xsize = 0 /\ xcount = 0
    /\ xret = "OK" /\ xpos0 = 0
    /\ content0 = content
    /\ pc = "move" /\ ret = "OK" /\ err = "none"
    /\ SearchIdle
    /\ src \in MoveOffsets /\ dest \in MoveOffsets /\ size \in 0..MaxSize
    /\ size0 = size
    /\ size_moved = 0 /\ moved_set = FALSE
    /\ to_read = 0 /\ n_read = 0 /\ n_written = 0
    /\ short_read = FALSE

NextMove ==
    \/ file_move_entry
    \/ file_move_seek_src
    \/ file_move_seek_dest
    \/ file_move_fwd_written
    \/ file_move_bwd_written
    \/ file_read_fully
    \/ file_write_fully

SpecMove == InitMove /\ [][NextMove]_vars

\* ---------------------------------------------------------------- file_search
\* Longest file content file_search is run on.
MaxFile == 3
\* Longest pattern.
MaxPat == 2
\* Largest start offset passed.
MaxStart == 2
\* Largest match budget passed.
MaxMatches == 2
\* SIZE_MAX, the largest buffer size, scaled to the model's sizes.
SIZE_MAX == 4
\* DEFAULT_BUFFER_SIZE (8 MiB in the build), scaled to the model's sizes.
DEFAULT_BUFFER_SIZE == 3

\* The statuses result_cb may return.
CallbackResults == {"OK", "WARN", "FAILED", "FATAL"}

\* mb_memmem(b + from, remain, pat, |pat|): the offset in b of the first
\* occurrence of pat inside b[from .. from+remain), -1 when there is none.
MemMem(b, from, remain, pat) ==
    LET hits == {i \in from..(from + remain - Len(pat)) :
                    \A j \in 1..Len(pat) : b[i + j] = pat[j]}
    IN IF hits = {} THEN -1 ELSE CHOOSE i \in hits : \A h \in hits : i <= h

\* memmove(b, b + from, k)
MemmoveFront(b, from, k) ==
    [i \in 1..Len(b) |-> IF i <= k THEN b[from + i] ELSE b[i]]

\* Lines 288-298: the buffer size.
BufferSize(bs, psz) ==
    IF bs # 0 THEN bs
    ELSE IF psz > SIZE_MAX \div 2 THEN SIZE_MAX
    ELSE Max(DEFAULT_BUFFER_SIZE, psz * 2)

\* A faulty variant of BufferTooSmall: a buffer one byte short is let through.
BufferTooSmall_OffByOne(bs, psz) == bs + 1 < psz

\* Line 301: the buffer is too small for the pattern.
BufferTooSmall(bs, psz) == bs < psz

\* A faulty variant of PastEnd: the start of the match is compared, not its end.
PastEnd_MatchStart(m, psz) == end >= 0 /\ offset + m > end

\* Lines 376-377: the match at buffer offset m ends past the end offset.
PastEnd(m, psz) == end >= 0 /\ offset + m + psz > end

\* Line 383: the offset handed to result_cb for a match at buffer offset m.
MatchOffset(m) == offset + m

\* A faulty variant of CallbackVerdict: WARN is returned like a failure.
CallbackVerdict_WarnIsError(cb) ==
    IF LtOK(cb) THEN cb ELSE "go on"

\* A faulty variant of CallbackVerdict: every failure is returned as FAILED.
CallbackVerdict_AlwaysFailed(cb) ==
    IF cb = "WARN" THEN "OK"
    ELSE IF LtOK(cb) THEN "FAILED"
    ELSE "go on"

\* Lines 384-390: what file_search does with result_cb's status: "go on", or
\* the status it returns.
CallbackVerdict(cb) ==
    IF cb = "WARN" THEN "OK"
    ELSE IF LtOK(cb) THEN cb
    ELSE "go on"

\* Lines 392-393: the budget after a match.
BudgetAfter(mm) == IF mm > 0 THEN mm - 1 ELSE mm

\* A faulty variant of BudgetSpent: the budget is never found used up.
BudgetSpent_Never(mm) == mm > 0 /\ BudgetAfter(mm) < 0

\* Lines 394-396: the budget has just run out.
BudgetSpent(mm) == mm > 0 /\ BudgetAfter(mm) = 0

\* A faulty variant of Advance: the next search starts one byte on.
Advance_ByOne(m, psz) == m + 1

\* Line 401: the search cursor after a match at buffer offset m.
Advance(m, psz) == m + psz

\* A faulty variant of ToMove: no byte is kept for the next fill.
ToMove_Nothing(remain, psz) == 0

\* A faulty variant of ToMove: as many bytes as the pattern has are kept.
ToMove_WholePattern(remain, psz) == Min(remain, psz)

\* Line 411: the bytes kept for the next fill.
ToMove(remain, psz) == Min(remain, psz - 1)

\* The top of the loop, line 344: file_read_fully(file, ptr, ptr_remain, &n).
BeginFill(p, rem) ==
    /\ ptr' = p
    /\ ptr_remain' = rem
    /\ Enter("read", p, rem)
    /\ pc' = "fill"

\* Lines 274-344: the argument checks, the buffer, the seek to the start.
file_search_entry ==
    /\ pc = "search"
    /\ LET psz == Len(pattern)
           bs == BufferSize(bsize, psz)
           off == IF start >= 0 THEN start ELSE 0
       IN
       IF start >= 0 /\ end >= 0 /\ end < start
       THEN /\ err' = "INVALID_ARGUMENT"
            /\ Return("FAILED")
            /\ UNCHANGED <<fvars, buf, buf_size, offset, ptr, ptr_remain>>
       ELSE IF max_matches = 0 \/ psz = 0
       THEN /\ Return("OK")
            /\ UNCHANGED <<fvars, buf, buf_size, offset, ptr, ptr_remain, err>>
       ELSE IF BufferTooSmall(bs, psz)
       THEN /\ buf_size' = bs
            /\ err' = "INVALID_ARGUMENT"
            /\ Return("FAILED")
            /\ UNCHANGED <<fvars, buf, offset, ptr, ptr_remain>>
       ELSE \/ /\ buf_size' = bs
               /\ err' = "ENOMEM"
               /\ hfail' = TRUE
               /\ Return("FAILED")
               /\ UNCHANGED <<content, pos, cap, retryRun, hcall, ncalls, wlog,
                              buf, offset, ptr, ptr_remain>>
            \/ /\ buf_size' = bs
               /\ buf' = NewBuf(bs)
               /\ offset' = off
               /\ UNCHANGED <<content, cap>>
               /\ \E st \in FileSeek :
                     /\ Seek(off, st)
                     /\ IF st = "UNSUPPORTED"
                        THEN /\ Enter("discard", 0, off)
                             /\ pc' = "discard"
                             /\ UNCHANGED <<ret, err, ptr, ptr_remain>>
                        ELSE IF LtOK(st)
                        THEN Return(st) /\ UNCHANGED <<err, ptr, ptr_remain>>
                        ELSE BeginFill(0, bs) /\ UNCHANGED <<ret, err>>
    /\ UNCHANGED <<seekable, faults, retryMax, shorts, sizeof_buf, content0, mvars, start, end, bsize, pattern,
                   max_matches, match, match_remain, n, matches, cbret, max0>>

\* Lines 326-344: file_read_discard's result when the handle cannot seek.
file_search_discarded ==
    /\ pc = "discard" /\ xpc = "ret"
    /\ UNCHANGED fvars
    /\ IF LtOK(xret)
       THEN Return(xret) /\ UNCHANGED <<err, ptr, ptr_remain>>
       ELSE IF xcount # offset
       THEN /\ err' = "INVALID_ARGUMENT"
            /\ Return("FATAL")
            /\ UNCHANGED <<ptr, ptr_remain>>
       ELSE BeginFill(0, buf_size) /\ UNCHANGED <<ret, err>>
    /\ UNCHANGED <<buf, seekable, faults, retryMax, shorts, sizeof_buf, content0, mvars, start, end, bsize,
                   pattern, max_matches, buf_size, match, match_remain, offset, n,
                   matches, cbret, max0>>

\* Lines 344-371: file_read_fully's result, the end of file, the end offset, the
\* overflow check, the cursor at the start of the buffer.
file_search_filled ==
    /\ pc = "fill" /\ xpc = "ret"
    /\ IF LtOK(xret)
       THEN /\ n' = xcount
            /\ Return(xret)
            /\ UNCHANGED <<err, match, match_remain>>
       ELSE LET nn == xcount + ptr IN
            /\ n' = nn
            /\ IF nn < Len(pattern) \/ (end >= 0 /\ offset >= end)
               THEN Return(xret) /\ UNCHANGED <<err, match, match_remain>>
               ELSE IF nn > UINT64_MAX - offset
               THEN /\ err' = "INTERNAL_ERROR"
                    /\ Return("FAILED")
                    /\ UNCHANGED <<match, match_remain>>
               ELSE /\ match' = 0
                    /\ match_remain' = nn
                    /\ pc' = "scan"
                    /\ ret' = xret
                    /\ xpc' = "idle"
                    /\ UNCHANGED <<err, xop, xbase, xsize, xcount, xret, xpos0>>
    /\ UNCHANGED <<fvars, buf, seekable, faults, retryMax, shorts, sizeof_buf, content0, mvars, start, end,
                   bsize, pattern, max_matches, buf_size, ptr, ptr_remain, offset,
                   matches, cbret, max0>>

\* Lines 373-406: one pass of the inner loop: mb_memmem, the end offset, the
\* callback, the budget, the cursor moved past the match.
file_search_scan ==
    /\ pc = "scan"
    /\ LET psz == Len(pattern)
           m == MemMem(buf, match, match_remain, pattern)
       IN
       IF m = -1
       THEN /\ match' = -1
            /\ pc' = "shift"
            /\ UNCHANGED <<ret, xvars, match_remain, max_matches, matches, cbret>>
       ELSE IF PastEnd(m, psz)
       THEN /\ match' = m
            /\ Return("OK")
            /\ UNCHANGED <<match_remain, max_matches, matches, cbret>>
       ELSE \E cb \in CallbackResults :
            /\ matches' = Append(matches, MatchOffset(m))
            /\ cbret' = cb
            /\ IF CallbackVerdict(cb) # "go on"
               THEN /\ match' = m
                    /\ Return(CallbackVerdict(cb))
                    /\ UNCHANGED <<match_remain, max_matches>>
               ELSE /\ max_matches' = BudgetAfter(max_matches)
                    /\ IF BudgetSpent(max_matches)
                       THEN /\ match' = m
                            /\ Return(cb)
                            /\ UNCHANGED match_remain
                       ELSE IF match_remain >= psz
                       THEN /\ match' = Advance(m, psz)
                            /\ match_remain' = n - match'
                            /\ ret' = cb
                            /\ UNCHANGED <<pc, xvars>>
                       ELSE /\ match' = m
                            /\ pc' = "shift"
                            /\ ret' = cb
                            /\ UNCHANGED <<xvars, match_remain>>
    /\ UNCHANGED <<fvars, buf, err, seekable, faults, retryMax, shorts, sizeof_buf, content0, mvars, start, end,
                   bsize, pattern, buf_size, ptr, ptr_remain, offset, n, max0>>

\* Lines 411-416 and 344: the tail of the buffer moved to its start, the offset
\* advanced, the next fill.
file_search_shift ==
    /\ pc = "shift"
    /\ UNCHANGED fvars
    /\ LET to_move == ToMove(match_remain, Len(pattern)) IN
       /\ buf' = MemmoveFront(buf, n - to_move, to_move)
       /\ offset' = offset + (n - to_move)
       /\ BeginFill(to_move, buf_size - to_move)
    /\ UNCHANGED <<ret, err, seekable, faults, retryMax, shorts, sizeof_buf, content0, mvars, start, end, bsize,
                   pattern, max_matches, buf_size, match, match_remain, n,
                   matches, cbret, max0>>

\* Every byte string of length lo..hi over the two bytes 1 and 2.
Strings(lo, hi) == UNION {[1..l -> {1, 2}] : l \in lo..hi}

\* The variables of a call of file_search that has not begun.
SearchStart ==
    /\ retryRun = 0 /\ hcall = NoCall /\ ncalls = 0 /\ hfail = FALSE
    /\ wlog = NoWrites
    /\ buf = <<>>
    /\ xpc = "idle" /\ xop = "read" /\ xbase = 0 /\ xsize = 0 /\ xcount = 0
    /\ xret = "OK" /\ xpos0 = 0
    /\ content0 = content /\ cap = Len(content)
    /\ pc = "search" /\ ret = "OK" /\ err = "none"
    /\ MoveIdle
    /\ max0 = max_matches
    /\ buf_size = 0 /\ ptr = 0 /\ ptr_remain = 0 /\ match = 0 /\ match_remain = 0
    /\ offset = 0 /\ n = 0 /\ matches = <<>> /\ cbret = "none"

\* The patterns passed: the empty one, and those that start with byte 1 (the
\* contents cover both bytes, so a pattern that starts with byte 2 adds nothing).
Patterns == {<<>>} \cup {p \in Strings(1, MaxPat) : p[1] = 1}

\* A caller invokes file_search with any arguments on a handle that can seek and
\* is at the end of the file. The handle transfers as much as it can in one
\* call and may fail.
InitSearchSeekable ==
    /\ content \in Strings(0, MaxFile)
    /\ seekable = TRUE
    /\ pos = Len(content)
    /\ faults = {"FAILED"} /\ retryMax = 0 /\ shorts = FALSE
    /\ sizeof_buf = MaxChunk
    /\ start \in -1..MaxStart
    /\ end \in -1..MaxFile
    /\ bsize \in 0..SIZE_MAX
    /\ pattern \in Patterns
    /\ max_matches \in -1..MaxMatches
    /\ SearchStart

\* A caller invokes file_search for all matches up to the end of the file on a
\* handle that cannot seek and is at the beginning of the file. The handle may
\* return short counts.
InitSearchUnseekable ==
    /\ content \in Strings(0, MaxFile)
    /\ seekable = FALSE
    /\ pos = 0
    /\ faults = {"FAILED"} /\ retryMax = 0 /\ shorts \in BOOLEAN
    /\ sizeof_buf \in 1..MaxChunk
    /\ start \in -1..MaxStart
    /\ end = -1
    /\ bsize \in 0..SIZE_MAX
    /\ pattern \in Patterns
    /\ max_matches = -1
    /\ SearchStart

\* The content "ababababab" and the pattern "abab" of the note at lines 235-238
\* (a is byte 1, b is byte 2), searched whole with every buffer size that holds
\* the pattern, on a handle that may return short counts.
InitSearchNote ==
    /\ content = <<1, 2, 1, 2, 1, 2, 1, 2, 1, 2>>
    /\ pattern = <<1, 2, 1, 2>>
    /\ seekable = TRUE
    /\ pos = 0
    /\ faults = {} /\ retryMax = 0 /\ shorts \in BOOLEAN
    /\ sizeof_buf = MaxChunk
    /\ start = -1 /\ end = -1 /\ max_matches = -1
    /\ bsize \in {0} \cup Len(pattern)..Len(content)
    /\ SearchStart

InitSearch == InitSearchSeekable \/ InitSearchUnseekable \/ InitSearchNote

NextSearch ==
    \/ file_search_entry
    \/ file_search_discarded
    \/ file_search_filled
    \/ file_search_scan
    \/ file_search_shift
    \/ file_read_fully
    \/ file_read_discard

SpecSearch == InitSearch /\ [][NextSearch]_vars

\* A caller invokes file_search for all matches up to the end of the file on a
\* handle at the beginning of a finite file; the handle never fails, may return
\* short counts, and returns RETRY at most MaxRetry times in a row. It seeks and
\* the search is of the whole file, or it cannot seek and the search starts at
\* offset MaxStart.
InitSearchRetry ==
    /\ content \in Strings(0, MaxFile)
    /\ seekable \in BOOLEAN
    /\ pos = 0
    /\ faults = {} /\ retryMax = MaxRetry /\ shorts = TRUE
    /\ sizeof_buf = MaxChunk
    /\ start = IF seekable THEN -1 ELSE MaxStart
    /\ end = -1
    /\ bsize \in 0..SIZE_MAX
    /\ pattern \in Patterns
    /\ max_matches = -1
    /\ SearchStart

\* The function runs to its return: the thread that called it keeps taking the
\* next step of the code as long as there is one.
SpecSearchLive == InitSearchRetry /\ [][NextSearch]_vars /\ WF_vars(NextSearch)

\* ---------------------------------------------------------------- search claims
\* pat occurs in c at offset i.
Occurs(c, pat, i) ==
    i + Len(pat) <= Len(c) /\ \A j \in 1..Len(pat) : c[i + j] = pat[j]

\* The reference scan of c[.. lim) from offset i on: the first occurrence at or
\* after i, then the first at or after that match's end, and so on.
RECURSIVE RefScan(_, _, _, _)
RefScan(c, pat, i, lim) ==
    IF i + Len(pat) > lim THEN <<>>
    ELSE IF Occurs(c, pat, i) THEN <<i>> \o RefScan(c, pat, i + Len(pat), lim)
    ELSE RefScan(c, pat, i + 1, lim)

\* The reference scan of the range the call was asked to search.
Expected ==
    RefScan(content0, pattern,
            IF start >= 0 THEN start ELSE 0,
            IF end >= 0 THEN Min(end, Len(content0)) ELSE Len(content0))

\* The call can run its scan: a pattern, a range in order, a buffer that holds
\* the pattern, a handle that seeks to the start (or is there already), and no
\* handle call or allocation that failed.
CanScan ==
    /\ Len(pattern) > 0
    /\ ~(start >= 0 /\ end >= 0 /\ end < start)
    /\ (bsize = 0 \/ bsize >= Len(pattern))
    /\ (seekable \/ start <= 0)
    /\ ~hfail

\* C2: with a callback that always returns OK and no match budget, the offsets
\* file_search reports are those of the reference scan of the searched range,
\* whatever the buffer size (at least the pattern size) and however the matches
\* lie across the buffer fills; the call returns OK.
C2_SearchIsGreedyScan ==
    (pc = "done" /\ CanScan /\ max0 < 0 /\ cbret \in {"none", "OK"}) =>
        (ret = "OK" /\ matches = Expected)

\* C2 witness: the search of "ababababab" for "abab" with a buffer of five
\* bytes ended; the match at offset 4 straddles two fills.
C2_Witness ==
    /\ pc = "done" /\ CanScan /\ max0 < 0 /\ cbret = "OK"
    /\ Len(content0) = 10 /\ buf_size = 5
    /\ matches = <<0, 4>>

\* C3: the offsets handed to the callback in one call are increasing and do not
\* overlap: each is at least the pattern size after the one before it.
C3_MatchesDoNotOverlap ==
    \A i \in 1..(Len(matches) - 1) : matches[i + 1] >= matches[i] + Len(pattern)

\* C3 witness: two matches of a pattern of two bytes or more, the second found
\* in a later fill than the first.
C3_Witness ==
    /\ Len(matches) >= 2 /\ Len(pattern) >= 2
    /\ offset > matches[1]

\* C4: with an end offset, no offset m with m + pattern_size > end is handed to
\* the callback.
C4_NoMatchPastEnd ==
    end >= 0 => \A i \in 1..Len(matches) : matches[i] + Len(pattern) <= end

\* C4 witness: the search stopped at an occurrence that the buffer holds and
\* that ends past the end offset, after it had reported a match.
C4_Witness ==
    /\ pc = "done" /\ end >= 0 /\ Len(matches) >= 1
    /\ match >= 0 /\ offset + match + Len(pattern) > end
    /\ Occurs(content0, pattern, offset + match)

\* C5: with max_matches = k > 0 the callback is invoked at most k times; when it
\* always returns OK it is invoked min(k, matches of the reference scan) times
\* and the call returns OK.
C5_MatchBudget ==
    max0 > 0 =>
        /\ Len(matches) <= max0
        /\ (pc = "done" /\ CanScan /\ cbret \in {"none", "OK"}) =>
              (Len(matches) = Min(max0, Len(Expected)) /\ ret = "OK")

\* C5 witness: the budget of one match ended a search that had more to report.
C5_Witness ==
    /\ pc = "done" /\ CanScan /\ max0 = 1 /\ cbret = "OK"
    /\ Len(matches) = 1 /\ Len(Expected) >= 2

\* C6: once the callback has returned WARN the call is over and has returned OK:
\* no step calls the callback or the handle again.
C6_WarnStopsWithOK ==
    /\ [](cbret = "WARN" => (pc = "done" /\ ret = "OK" /\ xpc = "idle"))
    /\ [][(cbret = "WARN") => (UNCHANGED <<matches, pos, ncalls, hcall>>)]_vars

\* C6 witness: the callback returned WARN on the first of several matches.
C6_Witness ==
    /\ cbret = "WARN" /\ CanScan /\ max0 < 0
    /\ Len(matches) = 1 /\ Len(Expected) >= 2

\* C7: once the callback has returned FAILED or FATAL the call is over and has
\* returned that status: no step calls the callback again.
C7_CallbackFailureReturned ==
    /\ [](cbret \in {"FAILED", "FATAL"} => (pc = "done" /\ ret = cbret /\ xpc = "idle"))
    /\ [][(cbret \in {"FAILED", "FATAL"}) => (UNCHANGED <<matches, pos, ncalls>>)]_vars

\* C7 witness: the callback returned FATAL on the second match, more following.
C7_Witness ==
    /\ cbret = "FATAL" /\ CanScan /\ max0 < 0
    /\ Len(matches) = 2 /\ Len(Expected) >= 3

\* ---------------------------------------------------------------- move claims
\* memmove(c + d, c + s, k) on the whole content at once.
Memmove(c, s, d, k) ==
    [i \in 1..Len(c) |-> IF i > d /\ i <= d + k THEN c[s + (i - d)] ELSE c[i]]

\* Both ranges of the call lie inside the file it started on.
RangesInFile == src + size0 <= Len(content0) /\ dest + size0 <= Len(content0)

\* C1: when both ranges lie inside the file, the handle can seek and no handle
\* call fails, file_move
\* returns OK with *size_moved = size and the file is the one a single memmove of
\* the whole range gives (so every byte outside the destination range is
\* unchanged), for every chunk size and every split of the reads and writes.
C1_MoveIsMemmove ==
    (pc = "done" /\ RangesInFile /\ seekable /\ ~hfail) =>
        /\ ret = "OK"
        /\ moved_set /\ size_moved = size0
        /\ content = Memmove(content0, src, dest, size0)

\* C1 witness: a backward move of overlapping ranges, longer than the chunk,
\* completed in two chunks with more calls than the eight that two chunks need:
\* some read or write was short or had to be retried.
C1_Witness ==
    /\ pc = "done" /\ RangesInFile /\ seekable /\ ~hfail
    /\ src < dest /\ dest < src + size0
    /\ size0 = 3 /\ sizeof_buf = 2
    /\ ncalls >= 10

\* ---------------------------------------------------------------- transfer claims
\* Bytes the handle can still deliver (read) or take (write) from position p.
AvailFrom(op, p) ==
    IF op = "write" THEN (IF p < cap THEN cap - p ELSE 0)
    ELSE (IF p < Len(content0) THEN Len(content0) - p ELSE 0)

\* C8: on a handle that never fails, file_read_fully and file_write_fully return
\* OK with the count min(size, bytes available from the starting position), and
\* the bytes transferred are the handle's bytes in order: byte i of the buffer is
\* byte i after the starting position of the file, the rest of the file unchanged.
C8_FullyTransfers ==
    (xpc = "ret" /\ ~hfail /\ xop \in {"read", "write"}) =>
        /\ xret = "OK"
        /\ xcount = Min(xsize, AvailFrom(xop, xpos0))
        /\ pos = xpos0 + xcount
        /\ \A i \in 1..xcount : content[xpos0 + i] = buf[xbase + i]
        /\ xop = "read" => content = content0
        /\ xop = "write" =>
              /\ Len(content) = Max(Len(content0), xpos0 + xcount)
              /\ \A i \in 1..Len(content0) :
                    (i <= xpos0 \/ i > xpos0 + xcount) => content[i] = content0[i]

\* C8 witness: a read that ended short at end of file and a write that filled
\* its size, each after several short calls and a RETRY -- here the read.
C8_Witness ==
    /\ xpc = "ret" /\ ~hfail /\ xop = "read"
    /\ xcount >= 2 /\ xcount < xsize /\ ncalls >= 4

\* C9: none of the three functions returns RETRY; after a RETRY the function is
\* still in its loop, the count is unchanged, and the next call it makes has the
\* same buffer position and the same length.
C9_RetryAbsorbed ==
    /\ [](xpc = "ret" => xret # "RETRY")
    /\ [](hcall.st = "RETRY" => xpc = "run")
    /\ [][(hcall'.st = "RETRY" /\ ncalls' # ncalls) => xcount' = xcount]_vars
    /\ [][(hcall.st = "RETRY" /\ ncalls' # ncalls) =>
            (hcall'.op = hcall.op /\ hcall'.at = hcall.at /\ hcall'.len = hcall.len)]_vars

\* C9 witness: file_read_discard got a RETRY after it had discarded some bytes.
C9_Witness == hcall.st = "RETRY" /\ xop = "discard" /\ xcount > 0

\* C10: when a File::read/File::write of file_read_fully or file_write_fully
\* returns a status below OK, the function has returned (no further call), with
\* that status, and the count is the bytes the earlier calls transferred.
C10_FailureStops ==
    (hcall.st \in HandleErrors /\ xop \in {"read", "write"}) =>
        /\ xpc = "ret"
        /\ xret = hcall.st
        /\ xcount = pos - xpos0

\* C10 witness: a write failed after earlier calls had written two bytes or more.
C10_Witness ==
    hcall.st \in HandleErrors /\ xop = "write" /\ xcount >= 2 /\ ncalls >= 3

\* C11: file_read_discard(size) on a handle that does not fail never moves the
\* position more than size bytes past where it started, and returns OK with
\* *bytes_discarded = min(size, bytes available) <= size, the position that many
\* bytes further, for every size and every split of the reads.
C11_DiscardConsumesExactly ==
    (xop = "discard" /\ ~hfail) =>
        /\ pos - xpos0 <= xsize
        /\ xpc = "ret" =>
              /\ xret = "OK"
              /\ xcount <= xsize
              /\ xcount = Min(xsize, AvailFrom("discard", xpos0))
              /\ pos = xpos0 + xcount

\* C12: on a handle that cannot seek and is at the beginning of the file,
\* file_search with a start offset discards exactly start bytes (all the bytes
\* when the file holds fewer) and then reports the matches of the reference scan
\* from start on; it returns FATAL with invalid-argument exactly when the file
\* holds fewer than start bytes.
C12_UnseekableDiscardsToStart ==
    (~seekable /\ start > 0 /\ ~hfail) =>
        /\ (pc = "discard" /\ xpc = "ret") => xcount = Min(start, Len(content0))
        /\ (pc = "done" /\ Len(pattern) > 0 /\ max0 # 0
              /\ (bsize = 0 \/ bsize >= Len(pattern))
              /\ cbret \in {"none", "OK"}) =>
              IF Len(content0) < start
              THEN ret = "FATAL" /\ err = "INVALID_ARGUMENT" /\ matches = <<>>
              ELSE ret = "OK" /\ matches = Expected

\* The call is given a buffer size of its own that is smaller than the pattern.
SmallBuffer == bsize # 0 /\ bsize < Len(pattern)

\* C13 as stated: a call with an explicit buffer size smaller than the pattern
\* size fails with invalid-argument and makes no seek, read or callback,
\* whatever the other arguments are.
C13_SmallBufferAlwaysFails ==
    (pc = "done" /\ SmallBuffer) =>
        /\ ret = "FAILED" /\ err = "INVALID_ARGUMENT"
        /\ ncalls = 0 /\ hcall = NoCall /\ matches = <<>> /\ cbret = "none"

\* C13 amended: a call with an explicit buffer size smaller than the pattern
\* size makes no seek, read or callback, whatever the other arguments are; it
\* fails with invalid-argument, except that it returns OK without an error when
\* max_matches is 0 and the range is in order.
C13_SmallBufferFailsUnlessTrivial ==
    (pc = "done" /\ SmallBuffer) =>
        /\ ncalls = 0 /\ hcall = NoCall /\ matches = <<>> /\ cbret = "none"
        /\ IF max0 = 0 /\ ~(start >= 0 /\ end >= 0 /\ end < start)
           THEN ret = "OK" /\ err = "none"
           ELSE ret = "FAILED" /\ err = "INVALID_ARGUMENT"

\* C13 witness: a call for every match of a pattern of two bytes that the file
\* holds, with a buffer of one byte and a range in order, has failed.
C13_Witness ==
    /\ pc = "done" /\ SmallBuffer /\ max0 < 0
    /\ start >= 0 /\ end > start
    /\ Len(Expected) >= 1
    /\ ret = "FAILED" /\ err = "INVALID_ARGUMENT"

\* C14: when file_move has returned with *size_moved < size, the first
\* *size_moved bytes of the source range are at the destination: for every
\* k < *size_moved the byte at dest + k is the byte that was at src + k when the
\* call started, in the forward and in the backward direction.
C14_FirstBytesMoved ==
    (pc = "done" /\ moved_set /\ size_moved < size0) =>
        \A k \in 0..(size_moved - 1) :
            src + k < Len(content0) =>
                /\ dest + k < Len(content)
                /\ content[dest + k + 1] = content0[src + k + 1]

\* C15: when file_move has returned a status below OK, *size_moved has been
\* assigned and is the number of bytes the call's File::write calls wrote.
C15_FailureReportsBytesWritten ==
    (pc = "done" /\ LtOK(ret)) =>
        /\ moved_set
        /\ size_moved = wlog.total

\* C16: when src = dest or size = 0, file_move returns OK with *size_moved =
\* size in one step that makes no File::seek, File::read, File::write or
\* File::set_error call and leaves the content and the position as they were.
C16_DegenerateMoveIsNoOp ==
    /\ []((pc = "done" /\ (src = dest \/ size0 = 0)) =>
            /\ ret = "OK" /\ moved_set /\ size_moved = size0
            /\ ncalls = 0 /\ hcall = NoCall /\ wlog = NoWrites
            /\ err = "none"
            /\ content = content0)
    /\ [][(pc = "move" /\ (src = dest \/ size0 = 0)) =>
            (pc' = "done" /\ pos' = pos /\ content' = content /\ ncalls' = ncalls)]_vars

\* C16 witness: a move of two bytes from an offset inside the file onto itself
\* has returned, the handle still at the end of the file.
C16_Witness ==
    /\ pc = "done" /\ src = dest /\ size0 = 2
    /\ src + size0 <= Len(content0)
    /\ pos = Len(content) /\ ret = "OK"

\* C17: a call that asks for a match (max_matches not 0, a range in order) with
\* a non-zero buffer size less than or equal to the pattern size fails with
\* invalid-argument, unless the allocation or a handle call failed first; a
\* buffer size equal to the pattern size is rejected.
C17_BufferNotAbovePatternFails ==
    (pc = "done" /\ bsize # 0 /\ bsize <= Len(pattern) /\ Len(pattern) > 0
        /\ max0 # 0 /\ ~(start >= 0 /\ end >= 0 /\ end < start) /\ ~hfail) =>
        ret = "FAILED" /\ err = "INVALID_ARGUMENT" /\ matches = <<>>

\* C18: in file_move no File::read reads an offset that an earlier File::write
\* of the call wrote, so no write overwrites a source byte that is read later;
\* a forward chunk's write ends at or below the offset the next read starts at,
\* a backward chunk's write starts at or above the end of what is left to read.
C18_WritesSpareUnreadSource ==
    /\ [][(ncalls' # ncalls /\ hcall'.op = "read") =>
            (pos .. (pos' - 1)) \cap wlog.offsets = {}]_vars
    /\ [][(ncalls' # ncalls /\ hcall'.op = "write" /\ hcall'.n > 0) =>
            IF pc = "fwd_write"
            THEN pos' <= FwdSrcOffset(src, size_moved + xcount')
            ELSE pos >= src + size - size_moved - n_read]_vars

\* C18 witness: in a backward move of overlapping ranges the read of a later
\* chunk has returned bytes, after an earlier chunk was written inside the
\* source range.
C18_Witness ==
    /\ pc = "bwd_read" /\ hcall.op = "read" /\ hcall.n > 0
    /\ src < dest /\ dest < src + size0
    /\ \E o \in wlog.offsets : o >= src /\ o < src + size0

\* C19: once a chunk whose read ended short at the end of the file has been
\* written, file_move writes no later chunk, in either direction, and without a
\* failed handle call it returns OK with *size_moved the bytes written.
C19_ShortReadEndsMove ==
    /\ (short_read /\ ~hfail) => pc \notin {"fwd_write", "bwd_write"}
    /\ (short_read /\ ~hfail /\ pc = "done") =>
          (ret = "OK" /\ size_moved = wlog.total)

\* C20: on a finite file whose handle returns RETRY only finitely many times in
\* a row, file_search returns, for every buffer size from the pattern size up;
\* each pass of the window loop that goes on to another fill moves the offset
\* forward by at least one byte and keeps a tail of at most pattern_size - 1
\* bytes, fewer than the buffer holds.
C20_SearchTerminates ==
    /\ <>(pc = "done")
    /\ [][pc = "shift" =>
            (offset' > offset /\ ptr' <= Len(pattern) - 1 /\ ptr' < buf_size)]_vars

\* C20 witness: with a buffer of exactly the pattern size, two bytes, the fill
\* of a later pass of the loop, one byte kept, has just got a RETRY.
C20_Witness ==
    /\ pc = "fill" /\ hcall.st = "RETRY"
    /\ buf_size = Len(pattern) /\ Len(pattern) = 2
    /\ offset > 0 /\ ptr = 1

====
